---- MODULE Spec2Model ----
(***************************************************************************)
(* Job queue, scheduler/worker, stale recovery and group completion        *)
(* barrier of the AST generation pipeline (cron route GET and queue route  *)
(* POST), over the shared key-value store.                                 *)
(*                                                                         *)
(* The store maps keys to values.  A key is a triple <<prefix, g, j>>:     *)
(*   job:<id>                 is  <<"job",   0, j>>                         *)
(*   group:<groupId>:<id>     is  <<"group", g, j>>                         *)
(*   group:<groupId>:status   is  <<"group", g, 0>>                         *)
(* A value is what kv.get hands back: a parsed object (kind "job") for a   *)
(* value that was written as JSON.stringify(job), the plain string (kind   *)
(* "str") for a value written as a bare word, and null (kind "nil") for a  *)
(* key that was never set.                                                 *)
(***************************************************************************)
EXTENDS Integers, Sequences, FiniteSets, TLC

\* ---------------------------------------------------------------- bounds
NJobs == 2          \* job slots (files with a changed fingerprint)
NPasses == 2        \* scheduler invocations that may overlap
MaxTicks == 2       \* the clock stops after MaxTicks ticks
MaxFaults == 1      \* environment faults (store errors, generation errors, kills)
CapLimit == 1       \* the limit handed to processJobs in the scaled-cap specification
TickStep == 360000  \* milliseconds per clock tick (one staleness threshold)

\* ------------------------------------------------------ program constants
StaleTime == 60000 * 6      \* GET: filterForStaleJobs(inProgressJobs, 60_000 * 6)
DefaultLimit == 50          \* processJobs(jobs, limit = 50)

Jobs == 1..NJobs
Groups == {1, 2}
Passes == 1..NPasses
MaxNow == MaxTicks * TickStep

\* The enqueue call that owns job slot j: slots 1 and 2 belong to the first
\* call (group 1), every further slot to the second call (group 2).
GroupOf(j) == IF j <= 2 THEN 1 ELSE 2
FilesOf(g) == {j \in Jobs : GroupOf(j) = g}
PathOf(j) == <<"file", j>>

\* ------------------------------------------------------------ store values
Nil == [kind |-> "nil"]
Str(s) == [kind |-> "str", s |-> s]
JobRec(j, status, at, result) ==
  [kind |-> "job", id |-> j, groupId |-> GroupOf(j), path |-> PathOf(j),
   status |-> status, updatedAt |-> at, result |-> result]

JobKey(j) == <<"job", 0, j>>
MarkerKey(g, j) == <<"group", g, j>>
GroupStatusKey(g) == <<"group", g, 0>>
Keys == {JobKey(j) : j \in Jobs}
          \cup {MarkerKey(GroupOf(j), j) : j \in Jobs}
          \cup {GroupStatusKey(g) : g \in Groups}

\* Property access on a value returned by kv.get: a field of a parsed object,
\* undefined on a string.
StatusOf(v) == IF v.kind = "job" THEN v.status ELSE "undefined"

VARIABLES
  now,        \* Date.now()
  kv,         \* the shared store: Keys -> value
  enq,        \* per enqueue call: number of kv.set calls of queueJob done so far
  passState,  \* per pass: "idle" | "running"
  pc,         \* per pass and job: position of processJob(job)
  lres,       \* per pass and job: job.result of the in-memory job object
  gen,        \* per pass and job: "err" once the detached fileInfoToAstData promise rejected
  hist,       \* per pass and job: what this execution has done, in order
  artifacts,  \* per group: documents handed to the artifact store
  failedOnce, \* the jobs that were recorded as failed at some time
  faults      \* environment faults so far

vars == <<now, kv, enq, passState, pc, lres, gen, hist, artifacts, failedOnce,
          faults>>

\* One call of a retry-fetch primitive (fetchFile or downloadFile of the lib).
VARIABLES
  rfFn,       \* "fetchFile" | "downloadFile", "none" when no call is modelled
  rfUrl,      \* the target of the call
  rfTarget,   \* the number of attempts the target fails before it succeeds
  rfPc,       \* position of the call: "throttle" | "try" | "backoff" | "done"
  attempt,    \* the loop variable
  tries,      \* attempts made so far (fetch calls)
  slept,      \* the timers awaited so far, in order
  outcome     \* "pending", or what the call returned or threw

fetchVars == <<rfFn, rfUrl, rfTarget, rfPc, attempt, tries, slept, outcome>>

FetchIdle ==
  /\ rfFn = "none" /\ rfUrl = "none" /\ rfTarget = 0 /\ rfPc = "done"
  /\ attempt = 0 /\ tries = 0 /\ slept = <<>> /\ outcome = "pending"

\* Requests the cron route answered with 401.
VARIABLES rejected

\* One call of the queue route (POST, queueGroupedJobs) at a time, and the
\* repository it reads.
VARIABLES
  repo,       \* the repository the calls are about
  latest,     \* per file: the sha of its latest commit (fetchGitHubCommits)
  failing,    \* the directories whose listing fails in the traversal of the call
  calls,      \* POST calls so far; call number n draws group id n
  nextId,     \* job ids drawn so far
  epc,        \* position of the call: "idle" | "compare" | "job" | "marker" | "meta"
  efiles,     \* files: the listed files that passed the filter
  eidx,       \* position of the for loop in files
  ejob,       \* id of the job being queued
  esha,       \* latestMetadata[0].sha of the file at hand
  eresp       \* the answer of the last call

enqueueVars == <<repo, latest, failing, calls, nextId, epc, efiles, eidx, ejob,
                 esha, eresp>>

EnqueueIdle ==
  /\ repo = 0 /\ latest = <<>> /\ failing = {} /\ calls = 0 /\ nextId = 0
  /\ epc = "idle" /\ efiles = <<>> /\ eidx = 0 /\ ejob = 0 /\ esha = 0
  /\ eresp = [kind |-> "none"]

\* The repository tree a traversal of the lib walks (fetchFiles,
\* checkoutProject), and the traversal.
VARIABLES
  tree,       \* the repository: per node its type and the directory it lies in
  lsub,       \* fetchFiles: the directory the call was given
  lout,       \* fetchFiles: what the call returned
  frames,     \* checkoutProject: the calls in progress, innermost last
  localDirs,  \* the local directories that exist
  targets,    \* the local paths downloadFile wrote to
  cout        \* checkoutProject: "idle" | "pending" | "done" | "threw"

treeVars == <<tree, lsub, lout, frames, localDirs, targets, cout>>

NoTree == [type |-> <<>>, parent |-> <<>>]
NotListed == [state |-> "none", files |-> <<>>]

TreeIdle ==
  /\ tree = NoTree /\ lsub = 0 /\ lout = NotListed
  /\ frames = <<>> /\ localDirs = {} /\ targets = {} /\ cout = "idle"

\* The variables the job queue and the scheduler leave alone.
apart == <<fetchVars, rejected, enqueueVars, treeVars>>

\* No invocation of the cron route is running and nothing was queued.
Quiet ==
  /\ enq = [g \in Groups |-> 0]
  /\ passState = [p \in Passes |-> "idle"]
  /\ pc = [p \in Passes |-> [j \in Jobs |-> "none"]]
  /\ lres = [p \in Passes |-> [j \in Jobs |-> "none"]]
  /\ gen = [p \in Passes |-> [j \in Jobs |-> "none"]]
  /\ hist = [p \in Passes |-> [j \in Jobs |-> <<>>]]
  /\ artifacts = [g \in Groups |-> <<>>]
  /\ failedOnce = {}
  /\ faults = 0

Boot ==
  /\ now = 0
  /\ kv = [k \in Keys |-> Nil]
  /\ Quiet

Init ==
  /\ Boot
  /\ FetchIdle
  /\ EnqueueIdle
  /\ rejected = 0
  /\ TreeIdle

\* ------------------------------------------------------------------ clock
\* The clock advances by one staleness threshold at a time.  An invocation
\* lives at most maxDuration = 300 s, less than a threshold, so none is still
\* running when a threshold has elapsed.
Tick ==
  /\ now < MaxNow
  /\ \A p \in Passes : passState[p] = "idle"
  /\ now' = now + TickStep
  /\ UNCHANGED <<kv, enq, passState, pc, lres, gen, hist, artifacts, failedOnce,
                 faults>>
  /\ UNCHANGED apart

\* --------------------------------------------------------------- helpers
Min(a, b) == IF a <= b THEN a ELSE b

\* The elements of a finite set of integers in increasing order.
RECURSIVE SeqOf(_)
SeqOf(S) ==
  IF S = {} THEN <<>>
  ELSE LET m == CHOOSE x \in S : \A y \in S : x <= y
       IN <<m>> \o SeqOf(S \ {m})

Range(s) == {s[i] : i \in 1..Len(s)}

\* ------------------------------------------------------------- queue route
\* queueJob(job): kv.set of the job record, then kv.set of the membership
\* marker.  queueGroupedJobs walks the files of the call in order; enq[g]
\* counts the kv.set calls of queueJob done so far for call g.
queueJob(g) ==
  /\ enq[g] < 2 * Cardinality(FilesOf(g))
  /\ LET j == SeqOf(FilesOf(g))[(enq[g] \div 2) + 1]
     IN kv' = IF enq[g] % 2 = 0
              THEN [kv EXCEPT ![JobKey(j)] = JobRec(j, "queued", now, "none")]
              ELSE [kv EXCEPT ![MarkerKey(g, j)] = Str("queued")]
  /\ enq' = [enq EXCEPT ![g] = @ + 1]
  /\ UNCHANGED <<now, passState, pc, lres, gen, hist, artifacts, failedOnce,
                 faults>>
  /\ UNCHANGED apart

\* --------------------------------------------------------------- cron route
\* The keys a scan with pattern <prefix>:<g>:* yields: the keys that exist.
ScanKeys(prefix, g) ==
  {k \in Keys : k[1] = prefix /\ k[2] = g /\ kv[k] # Nil}

\* The list left in the order of the scan.
Unsorted(s) == TRUE

\* What Array.prototype.sort((a, b) => a.updatedAt - b.updatedAt) may leave:
\* objects in nondecreasing updatedAt; the comparator is NaN on a string, so
\* strings may end anywhere.
SortedByUpdatedAt(s) ==
  \A i \in 1..Len(s) : \A k \in 1..Len(s) :
    (i < k /\ s[i].kind = "job" /\ s[k].kind = "job")
      => s[i].updatedAt <= s[k].updatedAt

\* getJobs that resolves every membership marker to the job record it stands
\* for, so that a group listing holds job objects.
getJobsAsRecords(prefix, g) ==
  LET ks == {k \in ScanKeys(prefix, g) : k[3] # 0}
      n == Cardinality(ks)
      orders == {o \in [1..n -> ks] : \A k \in ks : \E i \in 1..n : o[i] = k}
  IN {s \in {[i \in 1..n |-> kv[<<"job", 0, o[i][3]>>]] : o \in orders} :
        SortedByUpdatedAt(s)}

\* getJobs(pattern): the values of the matching keys, sorted.  The scan order
\* is unspecified, so getJobs is the set of the results it may return.
getJobs(prefix, g) ==
  LET ks == ScanKeys(prefix, g)
      n == Cardinality(ks)
      orders == {o \in [1..n -> ks] : \A k \in ks : \E i \in 1..n : o[i] = k}
  IN {s \in {[i \in 1..n |-> kv[o[i]]] : o \in orders} : SortedByUpdatedAt(s)}

\* The staleness test that also takes a job whose age equals the threshold.
IsStaleAtThreshold(job, staleTime) == now - job.updatedAt >= staleTime

\* The staleness test with the comparison turned around.
IsStaleFlipped(job, staleTime) == now - job.updatedAt < staleTime

\* filterForStaleJobs(jobs, staleTime): Date.now() - job.updatedAt > staleTime.
IsStale(job, staleTime) == now - job.updatedAt > staleTime
filterForStaleJobs(jobs, staleTime) ==
  LET Test(job) == IsStale(job, staleTime) IN SelectSeq(jobs, Test)

IsInProgress(job) == StatusOf(job) = "in-progress"
IsQueued(job) == StatusOf(job) = "queued"

\* processJobs that runs every job it is handed, whatever the limit.
processJobsNoLimit(jobs, limit) == jobs

\* processJobs(jobs, limit): jobs.slice(0, Math.min(jobs.length, limit)); every
\* job of the slice is then run by processJob, concurrently.
processJobs(jobs, limit) == SubSeq(jobs, 1, Min(Len(jobs), limit))

\* SelectJobs without the early return after the stale jobs: stale and queued
\* jobs are handed over together.
SelectJobsNoPriority(jobs) ==
  filterForStaleJobs(SelectSeq(jobs, IsInProgress), StaleTime)
    \o SelectSeq(jobs, IsQueued)

\* SelectJobs that also hands over the jobs listed as failed, for another try.
SelectJobsRetryFailed(jobs) ==
  LET stale == filterForStaleJobs(SelectSeq(jobs, IsInProgress), StaleTime)
      Eligible(job) == StatusOf(job) \in {"queued", "failed"}
  IN IF Len(stale) > 0 THEN stale ELSE SelectSeq(jobs, Eligible)

\* The jobs GET hands to processJobs: the stale in-progress jobs when there are
\* any, else the queued jobs.
SelectJobs(jobs) ==
  LET stale == filterForStaleJobs(SelectSeq(jobs, IsInProgress), StaleTime)
  IN IF Len(stale) > 0 THEN stale ELSE SelectSeq(jobs, IsQueued)

\* GET with a valid Authorization header: list, select, slice, and start one
\* processJob per job of the slice.  With nothing to do it answers at once.
\* Invocations are interchangeable: a new one takes the lowest free slot.
GET(p, limit) ==
  /\ passState[p] = "idle"
  /\ \A q \in Passes : q < p => passState[q] = "running"
  /\ \E jobs \in getJobs("job", 0) :
       LET slice == processJobs(SelectJobs(jobs), limit)
           ids == {slice[i].id : i \in 1..Len(slice)}
           ResultOf(j) == (CHOOSE job \in Range(slice) : job.id = j).result
       IN /\ ids # {}
          /\ passState' = [passState EXCEPT ![p] = "running"]
          /\ pc' = [pc EXCEPT ![p] =
                      [j \in Jobs |-> IF j \in ids THEN "start" ELSE "none"]]
          /\ lres' = [lres EXCEPT ![p] =
                      [j \in Jobs |-> IF j \in ids THEN ResultOf(j) ELSE "none"]]
  /\ UNCHANGED <<now, kv, enq, gen, hist, artifacts, failedOnce, faults>>
  /\ UNCHANGED apart

\* GET that ends without running a job: a wrong Authorization header (401), a
\* listing that throws (500), or a listing with no stale and no queued job.
Idle(p) ==
  /\ passState[p] = "idle"
  /\ UNCHANGED vars
  /\ UNCHANGED apart

\* ------------------------------------------------------ group completion
MetadataKey == <<"metadata", 0>>

\* The barrier that compares each listed value itself with "completed".
checkGroupCompletionOnMarkers(g) ==
  \A k \in ScanKeys("group", g) : kv[k] = Str("completed")

\* checkGroupCompletion(groupId): jobs.every(({ status }) => status === "completed")
\* over getJobs(`group:${groupId}:*`).
checkGroupCompletion(g) ==
  LET jobs == CHOOSE s \in getJobs("group", g) : TRUE
  IN \A i \in 1..Len(jobs) : StatusOf(jobs[i]) = "completed"

\* assembleDocument(jobs): Object.fromEntries of one [job.file.path, job.result]
\* per job followed by ["metadata", `${metadata}`]; a later entry with the same
\* key replaces an earlier one.
assembleDocument(jobs) ==
  IF Len(jobs) = 0 THEN <<>>
  ELSE LET entries == [i \in 1..Len(jobs) |-> <<jobs[i].path, jobs[i].result>>]
                        \o << <<MetadataKey, "[object Object]">> >>
           Last(k) == CHOOSE i \in 1..Len(entries) :
                        /\ entries[i][1] = k
                        /\ \A m \in 1..Len(entries) : entries[m][1] = k => m <= i
       IN [k \in {entries[i][1] : i \in 1..Len(entries)} |-> entries[Last(k)][2]]

\* finalizeGroup(groupId), with uploadOk the answer of the artifact store.
\* It throws a TypeError when the listing is empty (jobs[0] is undefined), when
\* jobs[0] has no owner (getASTFilename calls owner.replaceAll) and when an
\* element has no file (assembleDocument reads job.file.path); it throws after
\* the document was assembled when the upload fails.
finalizeGroup(g, uploadOk) ==
  LET jobs == CHOOSE s \in getJobs("group", g) : TRUE
      typeError == \/ Len(jobs) = 0
                   \/ \E i \in 1..Len(jobs) : jobs[i].kind # "job"
  IN IF typeError
     THEN [threw |-> TRUE, uploaded |-> FALSE, doc |-> <<>>]
     ELSE [threw |-> ~uploadOk, uploaded |-> uploadOk, doc |-> assembleDocument(jobs)]

\* ------------------------------------------------------------- processJob
\* processJob with the completion check moved before the marker write.
AfterCheckFirst(at) ==
  CASE at = "start" -> "running"
    [] at = "running" -> "marked"
    [] at = "marked" -> "saved"
    [] at = "saved" -> "done"
    [] at = "catch" -> "catch2"
    [] at = "catch2" -> "done"

\* processJob, statement by statement: where an execution stands after the
\* statement at position `at` returned.
After(at) ==
  CASE at = "start" -> "running"    \* saveJobWithStatus(job, "in-progress")
    [] at = "running" -> "saved"    \* processFile, saveJobWithStatus(job, "completed")
    [] at = "saved" -> "marked"     \* kv.set(marker, "completed")
    [] at = "marked" -> "done"      \* checkGroupCompletion, finalizeGroup
    [] at = "catch" -> "catch2"     \* handleJobFailure: saveJobWithStatus(job, "failed")
    [] at = "catch2" -> "done"      \* handleJobFailure: kv.set(marker, "failed")

Step(p, j, to, events) ==
  /\ pc' = [pc EXCEPT ![p][j] = to]
  /\ hist' = [hist EXCEPT ![p][j] = @ \o events]

Did(p, j, event) == \E i \in 1..Len(hist[p][j]) : hist[p][j][i] = event

\* A kv call of the try block fails: the error is thrown at the await.
StoreError(p, j) ==
  /\ faults < MaxFaults
  /\ faults' = faults + 1
  /\ UNCHANGED kv

\* The store error that sent an execution into its handler may still be there
\* when the handler makes its own kv calls.
HandlerStoreError(p, j) ==
  /\ Did(p, j, "store-error")
  /\ UNCHANGED <<kv, faults>>

\* saveJobWithStatus that stores the status on every job of the group.
saveJobWithStatusOfGroup(j, status, result) ==
  [k \in Keys |->
     IF k[1] = "job" /\ GroupOf(k[3]) = GroupOf(j) /\ kv[k].kind = "job"
     THEN JobRec(k[3], status, now, result)
     ELSE kv[k]]

\* saveJobWithStatus that puts a failed job back in the queue.
saveJobWithStatusRequeue(j, status, result) ==
  [kv EXCEPT ![JobKey(j)] =
     JobRec(j, IF status = "failed" THEN "queued" ELSE status, now, result)]

\* saveJobWithStatus that leaves job.updatedAt as it was listed.
saveJobWithStatusNoRefresh(j, status, result) ==
  [kv EXCEPT ![JobKey(j)] = JobRec(j, status, kv[JobKey(j)].updatedAt, result)]

\* saveJobWithStatus(job, status): job.status = status; job.updatedAt =
\* Date.now(); kv.set(`job:${job.id}`, JSON.stringify(job)).
saveJobWithStatus(j, status, result) ==
  [kv EXCEPT ![JobKey(j)] = JobRec(j, status, now, result)]

\* await saveJobWithStatus(job, "in-progress")
SaveInProgress(p, j) ==
  /\ pc[p][j] = "start"
  /\ \/ /\ kv' = saveJobWithStatus(j, "in-progress", lres[p][j])
        /\ Step(p, j, After("start"), <<"in-progress">>)
        /\ UNCHANGED faults
     \/ /\ StoreError(p, j)
        /\ Step(p, j, "catch", <<"store-error">>)
  /\ UNCHANGED <<now, enq, passState, lres, gen, artifacts, failedOnce>>
  /\ UNCHANGED apart

\* processFile(file): fileInfoToAstData(file) is called without await, so
\* astData is a pending promise whatever the file, and JSON.stringify(astData)
\* is "{}"; the promise settles later on its own.
processFile(file) == "{}"

\* job.result = await processFile(job.file); await saveJobWithStatus(job, "completed")
Generate(p, j) ==
  /\ pc[p][j] = "running"
  /\ lres' = [lres EXCEPT ![p][j] = processFile(PathOf(j))]
  /\ \/ /\ kv' = saveJobWithStatus(j, "completed", processFile(PathOf(j)))
        /\ Step(p, j, After("running"), <<"generate", "completed">>)
        /\ UNCHANGED faults
     \/ /\ StoreError(p, j)
        /\ Step(p, j, "catch", <<"generate", "store-error">>)
  /\ UNCHANGED <<now, enq, passState, gen, artifacts, failedOnce>>
  /\ UNCHANGED apart

\* await kv.set(`group:${job.groupId}:${job.id}`, "completed")
SetMarker(p, j) ==
  /\ pc[p][j] = "saved"
  /\ \/ /\ kv' = [kv EXCEPT ![MarkerKey(GroupOf(j), j)] = Str("completed")]
        /\ Step(p, j, After("saved"), <<"marker:completed">>)
        /\ UNCHANGED faults
     \/ /\ StoreError(p, j)
        /\ Step(p, j, "catch", <<"store-error">>)
  /\ UNCHANGED <<now, enq, passState, lres, gen, artifacts, failedOnce>>
  /\ UNCHANGED apart

\* if (await checkGroupCompletion(job.groupId)) await finalizeGroup(job.groupId)
CheckGroup(p, j) ==
  /\ pc[p][j] = "marked"
  /\ LET g == GroupOf(j)
     IN \/ /\ IF checkGroupCompletion(g)
              THEN \E uploadOk \in BOOLEAN :
                     LET r == finalizeGroup(g, uploadOk)
                     IN /\ artifacts' = [artifacts EXCEPT ![g] =
                                           IF r.uploaded THEN Append(@, r.doc) ELSE @]
                        /\ kv' = IF r.threw THEN kv
                                 ELSE [kv EXCEPT ![GroupStatusKey(g)] = Str("completed")]
                        /\ Step(p, j, IF r.threw THEN "catch" ELSE After("marked"),
                                <<"check", "finalize">>)
              ELSE /\ Step(p, j, After("marked"), <<"check">>)
                   /\ UNCHANGED <<kv, artifacts>>
           /\ UNCHANGED faults
        \/ /\ StoreError(p, j)
           /\ Step(p, j, "catch", <<"store-error">>)
           /\ UNCHANGED artifacts
  /\ UNCHANGED <<now, enq, passState, lres, gen, failedOnce>>
  /\ UNCHANGED apart

\* handleJobFailure(job): await saveJobWithStatus(job, "failed") ...
HandleFailureSave(p, j) ==
  /\ pc[p][j] = "catch"
  /\ \/ /\ kv' = saveJobWithStatus(j, "failed", lres[p][j])
        /\ failedOnce' = failedOnce \cup {j}
        /\ Step(p, j, After("catch"), <<"failed">>)
        /\ UNCHANGED faults
     \/ /\ HandlerStoreError(p, j)
        /\ Step(p, j, "thrown", <<>>)
        /\ UNCHANGED failedOnce
  /\ UNCHANGED <<now, enq, passState, lres, gen, artifacts>>
  /\ UNCHANGED apart

\* ... then await kv.set(`group:${job.groupId}:${job.id}`, "failed")
HandleFailureMarker(p, j) ==
  /\ pc[p][j] = "catch2"
  /\ \/ /\ kv' = [kv EXCEPT ![MarkerKey(GroupOf(j), j)] = Str("failed")]
        /\ Step(p, j, After("catch2"), <<"marker:failed">>)
        /\ UNCHANGED faults
     \/ /\ HandlerStoreError(p, j)
        /\ Step(p, j, "thrown", <<>>)
  /\ UNCHANGED <<now, enq, passState, lres, gen, artifacts, failedOnce>>
  /\ UNCHANGED apart

\* ------------------------------------------------------- end of a pass
Selected(p) == {j \in Jobs : pc[p][j] # "none"}

EndPass(p) ==
  /\ passState' = [passState EXCEPT ![p] = "idle"]
  /\ pc' = [pc EXCEPT ![p] = [j \in Jobs |-> "none"]]
  /\ lres' = [lres EXCEPT ![p] = [j \in Jobs |-> "none"]]
  /\ gen' = [gen EXCEPT ![p] = [j \in Jobs |-> "none"]]
  /\ hist' = [hist EXCEPT ![p] = [j \in Jobs |-> <<>>]]

\* await Promise.all(jobsToProcess.map(processJob)) settles: GET answers 200
\* when every processJob returned, and 500 (its catch) when one of them threw.
Return(p) ==
  /\ passState[p] = "running"
  /\ \A j \in Selected(p) : pc[p][j] \in {"done", "thrown"}
  /\ EndPass(p)
  /\ UNCHANGED <<now, kv, enq, artifacts, failedOnce, faults>>
  /\ UNCHANGED apart

\* The invocation is killed (execution budget exceeded, worker crash): every
\* execution of the pass stops where it is.
Abandon(p) ==
  /\ passState[p] = "running"
  /\ faults < MaxFaults
  /\ faults' = faults + 1
  /\ EndPass(p)
  /\ UNCHANGED <<now, kv, enq, artifacts, failedOnce>>
  /\ UNCHANGED apart

\* The detached fileInfoToAstData promise of an execution rejects (fetch
\* exhausted, summary request failed).  No handler is attached to it.
GenerationRejects(p, j) ==
  /\ passState[p] = "running"
  /\ Did(p, j, "generate")
  /\ gen[p][j] # "err"
  /\ faults < MaxFaults
  /\ faults' = faults + 1
  /\ gen' = [gen EXCEPT ![p][j] = "err"]
  /\ UNCHANGED <<now, kv, enq, passState, pc, lres, hist, artifacts, failedOnce>>
  /\ UNCHANGED apart

\* An unhandled rejection may end the process, and with it the pass; the
\* runtime may also only report it, and then nothing happens.
ProcessExits(p) ==
  /\ passState[p] = "running"
  /\ \E j \in Jobs : gen[p][j] = "err"
  /\ EndPass(p)
  /\ UNCHANGED <<now, kv, enq, artifacts, failedOnce, faults>>
  /\ UNCHANGED apart

\* --------------------------------------------------------- specification
\* What goes on in an invocation after GET started its executions.
Execute(p) ==
  \/ Return(p)
  \/ Abandon(p)
  \/ ProcessExits(p)
  \/ \E j \in Jobs :
       \/ SaveInProgress(p, j)
       \/ Generate(p, j)
       \/ SetMarker(p, j)
       \/ CheckGroup(p, j)
       \/ HandleFailureSave(p, j)
       \/ HandleFailureMarker(p, j)
       \/ GenerationRejects(p, j)

Pass(limit) ==
  \E p \in Passes :
    \/ GET(p, limit)
    \/ Idle(p)
    \/ Execute(p)

Next ==
  \/ Tick
  \/ \E g \in Groups : queueJob(g)
  \/ Pass(DefaultLimit)

Spec == Init /\ [][Next]_vars

\* ------------------------------------------------ recovery under the cap
\* The store after earlier invocations were killed: every job was queued at
\* time 0 and some were left in-progress.  Passes run with the limit scaled
\* down to CapLimit, so that there are more eligible jobs than the limit,
\* and keep being triggered; every execution and every pass that is not
\* killed runs to its end.
InitReclaim ==
  /\ now = 0
  /\ \E st \in [Jobs -> {"queued", "in-progress"}] :
       kv = [k \in Keys |->
               IF k[1] = "job" THEN JobRec(k[3], st[k[3]], 0, "none")
               ELSE IF k[3] # 0 THEN Str("queued") ELSE Nil]
  /\ enq = [g \in Groups |-> 2 * Cardinality(FilesOf(g))]
  /\ passState = [p \in Passes |-> "idle"]
  /\ pc = [p \in Passes |-> [j \in Jobs |-> "none"]]
  /\ lres = [p \in Passes |-> [j \in Jobs |-> "none"]]
  /\ gen = [p \in Passes |-> [j \in Jobs |-> "none"]]
  /\ hist = [p \in Passes |-> [j \in Jobs |-> <<>>]]
  /\ artifacts = [g \in Groups |-> <<>>]
  /\ failedOnce = {}
  /\ faults = 0
  /\ FetchIdle
  /\ EnqueueIdle
  /\ rejected = 0
  /\ TreeIdle

NextReclaim == Tick \/ Pass(CapLimit)

FairReclaim ==
  /\ WF_vars(Tick)
  /\ \A p \in Passes :
       /\ WF_vars(GET(p, CapLimit))
       /\ WF_vars(Return(p))
       /\ \A j \in Jobs :
            /\ WF_vars(SaveInProgress(p, j))
            /\ WF_vars(Generate(p, j))
            /\ WF_vars(SetMarker(p, j))
            /\ WF_vars(CheckGroup(p, j))
            /\ WF_vars(HandleFailureSave(p, j))
            /\ WF_vars(HandleFailureMarker(p, j))

SpecReclaim == InitReclaim /\ [][NextReclaim]_vars /\ FairReclaim

\* ------------------------------------------- jobs queued one after another
\* The store after an enqueue call that queued its files Stagger ms apart and
\* earlier invocations that left some of them in-progress; passes run with
\* the limit scaled down to CapLimit.
Stagger == 1000

InitOldest ==
  /\ now = Stagger
  /\ \E st \in [Jobs -> {"queued", "in-progress"}] :
       \E at \in [Jobs -> {0, Stagger}] :
         kv = [k \in Keys |->
                 IF k[1] = "job" THEN JobRec(k[3], st[k[3]], at[k[3]], "none")
                 ELSE IF k[3] # 0 THEN Str("queued") ELSE Nil]
  /\ enq = [g \in Groups |-> 2 * Cardinality(FilesOf(g))]
  /\ passState = [p \in Passes |-> "idle"]
  /\ pc = [p \in Passes |-> [j \in Jobs |-> "none"]]
  /\ lres = [p \in Passes |-> [j \in Jobs |-> "none"]]
  /\ gen = [p \in Passes |-> [j \in Jobs |-> "none"]]
  /\ hist = [p \in Passes |-> [j \in Jobs |-> <<>>]]
  /\ artifacts = [g \in Groups |-> <<>>]
  /\ failedOnce = {}
  /\ faults = 0
  /\ FetchIdle
  /\ EnqueueIdle
  /\ rejected = 0
  /\ TreeIdle

SpecOldest == InitOldest /\ [][NextReclaim]_vars

\* ------------------------------------------- an enqueue call that fails
\* An awaited request of queueGroupedJobs rejects (the store on a kv.set of
\* queueJob, the provider on fetchGitHubCommits): the error leaves the loop,
\* POST answers 500 with it and the call is over.  What the call wrote before
\* stays in the store.
QueueFails(g) ==
  /\ enq[g] < 2 * Cardinality(FilesOf(g))
  /\ faults < MaxFaults
  /\ faults' = faults + 1
  /\ enq' = [enq EXCEPT ![g] = 2 * Cardinality(FilesOf(g))]
  /\ UNCHANGED <<now, kv, passState, pc, lres, gen, hist, artifacts, failedOnce>>
  /\ UNCHANGED apart

NextQueueFault ==
  \/ Next
  \/ \E g \in Groups : QueueFails(g)

SpecQueueFault == Init /\ [][NextQueueFault]_vars

\* ------------------------------------------------ the trigger's boundary
\* GET compares the Authorization header of the request with
\* `Bearer ${process.env.CRON_SECRET}` before anything else.  A header is the
\* sequence of its words, empty when the request has none.
MaxRejected == 1   \* requests answered with 401
CronSecret == "s3cret"
Headers == {<<"Bearer", CronSecret>>, <<"Bearer", "guess">>, <<CronSecret>>, <<>>}

\* The test that lets every Bearer header pass.
AuthorizedAnyBearer(h) == Len(h) = 2 /\ h[1] = "Bearer"

\* req.headers.get("Authorization") === `Bearer ${process.env.CRON_SECRET}`
Authorized(h) == h = <<"Bearer", CronSecret>>

\* return new Response("Unauthorized", { status: 401 })
Unauthorized(p) ==
  /\ passState[p] = "idle"
  /\ rejected < MaxRejected
  /\ rejected' = rejected + 1
  /\ UNCHANGED <<vars, fetchVars, enqueueVars, treeVars>>

\* GET on a request with Authorization header h.
Trigger(p, limit, h) ==
  \/ /\ Authorized(h)
     /\ GET(p, limit) \/ Idle(p)
  \/ /\ ~Authorized(h)
     /\ Unauthorized(p)

NextTrigger ==
  \/ Tick
  \/ \E p \in Passes :
       \/ \E h \in Headers : Trigger(p, CapLimit, h)
       \/ Execute(p)

\* Requests with any header arrive over a store that holds queued and
\* in-progress jobs.
SpecTrigger == InitReclaim /\ [][NextTrigger]_<<vars, rejected>>

\* ------------------------------------------------- retry-fetch primitives
\* fetchFile(url) and downloadFile(url, filePath): up to 5 attempts, a timer
\* of 1000 * 2^attempt ms after a failed attempt that was not the last.  An
\* attempt fails when fetch rejects, when the response is not ok, or when
\* reading the body (writing the file) fails.
MaxTargetFails == 5   \* the target fails at most this many attempts in a row
Urls == {"u1", "u2", "u3"}
RetryFns == {"fetchFile", "downloadFile"}

MaxAttempts == 5      \* for (let attempt = 1; attempt <= 5; attempt++)
ThrottleDelay == 750  \* fetchFile: setTimeout(resolve, 750) before the loop

\* The loop that gives up one attempt later than the loop bound.
LastAttemptLate(n) == n = 6

\* if (attempt === 5) throw ...
LastAttempt(n) == n = 5

\* The timer that counts attempts from 0.
backoffFromZero(n) == 1000 * 2^(n - 1)

\* setTimeout(resolve, 1000 * Math.pow(2, attempt))
backoff(n) == 1000 * 2^n

Pending == [kind |-> "pending"]
\* What a successful attempt returns: the text of the response for fetchFile,
\* nothing for downloadFile, which wrote the file.
Returned(fn, url) ==
  [kind |-> "returned",
   value |-> IF fn = "fetchFile" THEN <<"data", url>> ELSE <<"written", url>>]
\* The statement after the loop: return "" (fetchFile), end of function
\* (downloadFile).
FellThrough(fn) == [kind |-> "returned", value |-> <<"">>]
\* new Error(`Failed to fetch file after 5 attempts: ${url}`) and
\* new Error(`Failed to download file after 5 attempts: ${url}`)
Exhausted(fn, url) ==
  [kind |-> "threw",
   what |-> IF fn = "fetchFile" THEN "fetch" ELSE "download",
   attempts |-> 5, target |-> url]

InitFetch ==
  /\ Boot
  /\ EnqueueIdle
  /\ rejected = 0
  /\ TreeIdle
  /\ rfFn \in RetryFns
  /\ rfUrl \in Urls
  /\ rfTarget \in 0..MaxTargetFails
  /\ rfPc = IF rfFn = "fetchFile" THEN "throttle" ELSE "try"
  /\ attempt = IF rfFn = "fetchFile" THEN 0 ELSE 1
  /\ tries = 0
  /\ slept = <<>>
  /\ outcome = Pending

\* fetchFile: await new Promise((resolve) => setTimeout(resolve, 750))
Throttle ==
  /\ rfPc = "throttle"
  /\ slept' = Append(slept, [after |-> 0, ms |-> ThrottleDelay])
  /\ attempt' = 1
  /\ rfPc' = "try"
  /\ UNCHANGED <<rfFn, rfUrl, rfTarget, tries, outcome>>
  /\ UNCHANGED <<vars, rejected, enqueueVars, treeVars>>

\* One turn of the try block: the attempt succeeds and the call returns, or it
\* fails and the catch block throws (last attempt) or goes on to the timer.
Attempt ==
  /\ rfPc = "try"
  /\ tries' = tries + 1
  /\ IF tries + 1 > rfTarget
     THEN /\ outcome' = Returned(rfFn, rfUrl)
          /\ rfPc' = "done"
     ELSE IF LastAttempt(attempt)
          THEN /\ outcome' = Exhausted(rfFn, rfUrl)
               /\ rfPc' = "done"
          ELSE /\ rfPc' = "backoff"
               /\ UNCHANGED outcome
  /\ UNCHANGED <<rfFn, rfUrl, rfTarget, attempt, slept>>
  /\ UNCHANGED <<vars, rejected, enqueueVars, treeVars>>

\* The timer of the catch block, then attempt++ and the loop test.
Backoff ==
  /\ rfPc = "backoff"
  /\ slept' = Append(slept, [after |-> attempt, ms |-> backoff(attempt)])
  /\ attempt' = attempt + 1
  /\ IF attempt + 1 <= MaxAttempts
     THEN /\ rfPc' = "try"
          /\ UNCHANGED outcome
     ELSE /\ rfPc' = "done"
          /\ outcome' = FellThrough(rfFn)
  /\ UNCHANGED <<rfFn, rfUrl, rfTarget, tries>>
  /\ UNCHANGED <<vars, rejected, enqueueVars, treeVars>>

NextFetch == Throttle \/ Attempt \/ Backoff

\* Timers fire and awaited requests settle.
SpecFetch == InitFetch /\ [][NextFetch]_fetchVars /\ WF_fetchVars(NextFetch)

\* ---------------------------------------------------- repository lister
\* Two repositories.  A path is the sequence of its characters.
\*   1:  a.js   b.png   dir/c.json
\*   2:  L.PNG  d.ttf/n
MaxCalls == 2     \* POST calls
MaxCommits == 1   \* commits pushed to the repository while the model runs
Repos == {1, 2}
RootDir == 0

FilePath(r, f) ==
  IF r = 1
  THEN CASE f = 1 -> <<"a", ".", "j", "s">>
         [] f = 2 -> <<"b", ".", "p", "n", "g">>
         [] f = 3 -> <<"d", "i", "r", "/", "c", ".", "j", "s", "o", "n">>
  ELSE CASE f = 1 -> <<"L", ".", "P", "N", "G">>
         [] f = 2 -> <<"d", ".", "t", "t", "f", "/", "n">>

FileIds(r) == IF r = 1 THEN {1, 2, 3} ELSE {1, 2}
DirIds(r) == {RootDir, 1}

File(f) == [type |-> "file", id |-> f]
Dir(d) == [type |-> "dir", id |-> d]

\* Repository 3 is the one held in `tree`, drawn from the repositories of
\* MaxNodes entries: every entry is a file or a directory and lies in the root
\* or in a directory (a directory is numbered before what it holds).
MaxNodes == 4
Nodes == 1..MaxNodes
DrawnRepo == 3
Trees ==
  {t \in [type : [Nodes -> {"file", "dir"}], parent : [Nodes -> 0..MaxNodes]] :
     \A n \in Nodes :
       \/ t.parent[n] = RootDir
       \/ t.parent[n] < n /\ t.type[t.parent[n]] = "dir"}
Dirs == {RootDir} \cup {n \in DOMAIN tree.type : tree.type[n] = "dir"}

\* The entries of directory d of the drawn repository.
TreeListing(d) ==
  LET order == SeqOf({n \in DOMAIN tree.parent : tree.parent[n] = d})
  IN [i \in 1..Len(order) |->
        IF tree.type[order[i]] = "file" THEN File(order[i]) ELSE Dir(order[i])]

\* The answer of the contents endpoint for directory d of repository r.
Listing(r, d) ==
  IF r = 1
  THEN (IF d = RootDir THEN <<File(1), File(2), Dir(1)>> ELSE <<File(3)>>)
  ELSE IF r = 2
  THEN (IF d = RootDir THEN <<File(1), Dir(1)>> ELSE <<File(2)>>)
  ELSE TreeListing(d)

RECURSIVE fetchFilesPartial(_, _, _)
RECURSIVE WalkPartial(_, _, _)
\* fetchFiles that swallows the error of a listing and goes on with the files
\* it has.
fetchFilesPartial(r, d, down) ==
  IF d \in down THEN [ok |-> TRUE, files |-> <<>>]
  ELSE WalkPartial(r, Listing(r, d), down)
WalkPartial(r, items, down) ==
  IF items = <<>> THEN [ok |-> TRUE, files |-> <<>>]
  ELSE LET first == IF Head(items).type = "file"
                    THEN [ok |-> TRUE, files |-> <<Head(items).id>>]
                    ELSE fetchFilesPartial(r, Head(items).id, down)
       IN [ok |-> TRUE,
           files |-> first.files \o WalkPartial(r, Tail(items), down).files]

\* The loop that pushes the files of the listing and passes over its
\* directories.
WalkShallow(r, items, down) ==
  LET fs == SelectSeq(items, LAMBDA item : item.type = "file")
  IN [ok |-> TRUE, files |-> [i \in 1..Len(fs) |-> fs[i].id]]

RECURSIVE fetchFiles(_, _, _)
RECURSIVE Walk(_, _, _)
\* fetchFiles(owner, repo, path): the listing of the directory, then for every
\* item in order a file is pushed and a directory is listed in turn and its
\* files appended; an error of any listing is rethrown.  `down` are the
\* directories whose listing fails.
fetchFiles(r, d, down) ==
  IF d \in down THEN [ok |-> FALSE, files |-> <<>>]
  ELSE Walk(r, Listing(r, d), down)
\* for (const item of data) { ... }
Walk(r, items, down) ==
  IF items = <<>> THEN [ok |-> TRUE, files |-> <<>>]
  ELSE LET first == IF Head(items).type = "file"
                    THEN [ok |-> TRUE, files |-> <<Head(items).id>>]
                    ELSE fetchFiles(r, Head(items).id, down)
       IN IF ~first.ok THEN [ok |-> FALSE, files |-> <<>>]
          ELSE LET rest == Walk(r, Tail(items), down)
               IN IF ~rest.ok THEN [ok |-> FALSE, files |-> <<>>]
                  ELSE [ok |-> TRUE, files |-> first.files \o rest.files]

\* One call fetchFiles(owner, repo, path) on the drawn repository, path being
\* the root or one of its directories; the listing of at most one directory
\* fails.
InitLister ==
  /\ Boot
  /\ FetchIdle
  /\ EnqueueIdle
  /\ rejected = 0
  /\ tree \in Trees
  /\ lsub = 0 /\ lout = NotListed
  /\ frames = <<>> /\ localDirs = {} /\ targets = {} /\ cout = "idle"

FetchFiles(d, down) ==
  /\ lout.state = "none"
  /\ d \in Dirs /\ down \subseteq Dirs
  /\ lsub' = d
  /\ lout' = LET r == fetchFiles(DrawnRepo, d, down)
             IN [state |-> IF r.ok THEN "returned" ELSE "threw", files |-> r.files]
  /\ UNCHANGED <<tree, frames, localDirs, targets, cout>>
  /\ UNCHANGED <<vars, fetchVars, rejected, enqueueVars>>

NextLister ==
  \E d \in 0..MaxNodes :
    \E down \in {{}} \cup {{x} : x \in 0..MaxNodes} : FetchFiles(d, down)

SpecLister == InitLister /\ [][NextLister]_treeVars

\* ------------------------------------------------------- checkoutProject
\* A local path is the sequence of its segments: RootDir for the directory
\* handed to the first call, the number of an entry for item.name.  The
\* working directory <<>> exists.
LocalRoot == <<RootDir>>
Parent(path) == SubSeq(path, 1, Len(path) - 1)

\* fs.ensureDir(dir): the directory and every ancestor that is missing.
ensureDir(dir) == localDirs \cup {SubSeq(dir, 1, k) : k \in 0..Len(dir)}

\* One call of checkoutProject(repoPath, localDir): the remote directory, the
\* local directory, the position, the items of contents still to visit.
Frame(d, local, at, items) ==
  [dir |-> d, local |-> local, at |-> at, items |-> items]

\* checkoutProject that goes from the contents straight into the loop.
CheckoutOrderNoEnsure(at) == "loop"

\* checkoutProject: the contents are fetched, then fs.ensureDir(localDir),
\* then the loop over the contents.
CheckoutOrder(at) ==
  CASE at = "fetch" -> "ensure"
    [] at = "ensure" -> "loop"

Top == frames[Len(frames)]
SetTop(f) == [frames EXCEPT ![Len(frames)] = f]

InitCheckout ==
  /\ Boot
  /\ FetchIdle
  /\ EnqueueIdle
  /\ rejected = 0
  /\ tree \in Trees
  /\ lsub = 0 /\ lout = NotListed
  /\ frames = <<Frame(RootDir, LocalRoot, "fetch", <<>>)>>
  /\ localDirs = {<<>>}
  /\ targets = {}
  /\ cout = "pending"

\* const contents = await response.json()
FetchContents ==
  /\ frames # <<>>
  /\ Top.at = "fetch"
  /\ frames' = SetTop([Top EXCEPT !.at = CheckoutOrder("fetch"),
                                  !.items = TreeListing(Top.dir)])
  /\ UNCHANGED <<tree, lsub, lout, localDirs, targets, cout>>
  /\ UNCHANGED <<vars, fetchVars, rejected, enqueueVars>>

\* await fs.ensureDir(localDir)
EnsureDir ==
  /\ frames # <<>>
  /\ Top.at = "ensure"
  /\ localDirs' = ensureDir(Top.local)
  /\ frames' = SetTop([Top EXCEPT !.at = CheckoutOrder("ensure")])
  /\ UNCHANGED <<tree, lsub, lout, targets, cout>>
  /\ UNCHANGED <<vars, fetchVars, rejected, enqueueVars>>

\* item.type === "file": await downloadFile(item.download_url, filePath) with
\* filePath = path.join(localDir, item.name).  fs.writeFile fails in a
\* directory that does not exist, downloadFile then gives up after its
\* attempts and the error leaves every checkoutProject call in progress.
Download ==
  /\ frames # <<>>
  /\ Top.at = "loop" /\ Top.items # <<>> /\ Head(Top.items).type = "file"
  /\ LET filePath == Append(Top.local, Head(Top.items).id)
     IN /\ targets' = targets \cup {filePath}
        /\ IF Parent(filePath) \in localDirs
           THEN /\ frames' = SetTop([Top EXCEPT !.items = Tail(@)])
                /\ UNCHANGED cout
           ELSE /\ frames' = <<>>
                /\ cout' = "threw"
  /\ UNCHANGED <<tree, lsub, lout, localDirs>>
  /\ UNCHANGED <<vars, fetchVars, rejected, enqueueVars>>

\* item.type === "dir": await checkoutProject(<url of the directory>,
\* path.join(localDir, item.name))
Descend ==
  /\ frames # <<>>
  /\ Top.at = "loop" /\ Top.items # <<>> /\ Head(Top.items).type = "dir"
  /\ frames' = Append(SetTop([Top EXCEPT !.items = Tail(@)]),
                      Frame(Head(Top.items).id,
                            Append(Top.local, Head(Top.items).id), "fetch", <<>>))
  /\ UNCHANGED <<tree, lsub, lout, localDirs, targets, cout>>
  /\ UNCHANGED <<vars, fetchVars, rejected, enqueueVars>>

\* The loop is over and the call returns.
CheckedOut ==
  /\ frames # <<>>
  /\ Top.at = "loop" /\ Top.items = <<>>
  /\ frames' = SubSeq(frames, 1, Len(frames) - 1)
  /\ cout' = IF Len(frames) = 1 THEN "done" ELSE cout
  /\ UNCHANGED <<tree, lsub, lout, localDirs, targets>>
  /\ UNCHANGED <<vars, fetchVars, rejected, enqueueVars>>

\* An awaited call rejects (the contents request is not ok, downloadFile gave
\* up, ensureDir failed): the catch of every call in progress rethrows.
CheckoutThrows ==
  /\ frames # <<>>
  /\ frames' = <<>>
  /\ cout' = "threw"
  /\ UNCHANGED <<tree, lsub, lout, localDirs, targets>>
  /\ UNCHANGED <<vars, fetchVars, rejected, enqueueVars>>

NextCheckout ==
  \/ FetchContents
  \/ EnsureDir
  \/ Download
  \/ Descend
  \/ CheckedOut
  \/ CheckoutThrows

SpecCheckout == InitCheckout /\ [][NextCheckout]_treeVars

\* --------------------------------------------------------- getFileType
UpperCase == <<"A", "B", "C", "D", "E", "F", "G", "H", "I", "J", "K", "L", "M",
               "N", "O", "P", "Q", "R", "S", "T", "U", "V", "W", "X", "Y", "Z">>
LowerCase == <<"a", "b", "c", "d", "e", "f", "g", "h", "i", "j", "k", "l", "m",
               "n", "o", "p", "q", "r", "s", "t", "u", "v", "w", "x", "y", "z">>

\* String.prototype.toLowerCase
toLowerCase(str) ==
  [i \in 1..Len(str) |->
     IF \E k \in 1..26 : UpperCase[k] = str[i]
     THEN LowerCase[CHOOSE k \in 1..26 : UpperCase[k] = str[i]]
     ELSE str[i]]

\* The greatest position of character c in str, 0 when there is none.
LastIndexOf(str, c) ==
  IF \E i \in 1..Len(str) : str[i] = c
  THEN CHOOSE i \in 1..Len(str) :
         str[i] = c /\ \A k \in (i + 1)..Len(str) : str[k] # c
  ELSE 0

\* path.extname: from the last "." of the last path segment to its end, empty
\* when the segment has no "." or only a leading one.
extname(path) ==
  LET base == SubSeq(path, LastIndexOf(path, "/") + 1, Len(path))
      dot == LastIndexOf(base, ".")
  IN IF dot <= 1 THEN <<>> ELSE SubSeq(base, dot, Len(base))

MediaExtensions ==
  {<<".", "m", "p", "4">>, <<".", "a", "v", "i">>, <<".", "m", "o", "v">>,
   <<".", "w", "m", "v">>, <<".", "g", "i", "f">>, <<".", "p", "n", "g">>,
   <<".", "j", "p", "g">>, <<".", "j", "p", "e", "g">>,
   <<".", "t", "i", "f", "f">>, <<".", "s", "v", "g">>, <<".", "b", "m", "p">>,
   <<".", "w", "e", "b", "p">>, <<".", "i", "c", "o">>,
   <<".", "w", "e", "b", "m">>, <<".", "t", "t", "f">>, <<".", "o", "t", "f">>,
   <<".", "w", "o", "f", "f">>, <<".", "w", "o", "f", "f", "2">>}

\* The switch of getFileType on an extension.
TypeOfExtension(ext) ==
  IF ext \in {<<".", "j", "s">>, <<".", "j", "s", "x">>, <<".", "t", "s">>,
              <<".", "t", "s", "x">>}
  THEN "JavaScript/TypeScript"
  ELSE IF ext = <<".", "j", "s", "o", "n">> THEN "JSON"
  ELSE IF ext = <<".", "h", "t", "m", "l">> THEN "HTML"
  ELSE IF ext = <<".", "c", "s", "s">> THEN "CSS"
  ELSE IF ext = <<".", "m", "d">> THEN "Markdown"
  ELSE IF ext \in MediaExtensions THEN "Media"
  ELSE "Unknown"

\* getFileType that compares the extension as it is written.
getFileTypeCaseSensitive(file) == TypeOfExtension(extname(file))

\* getFileType(file): the switch on path.extname(file).toLowerCase().
getFileType(file) == TypeOfExtension(toLowerCase(extname(file)))

\* ------------------------------------------------- enqueuer (POST route)
\* Keys of the calls: job ids and group ids are drawn fresh (uuidv4), here in
\* the order 1, 2, ...; `${repo}:${file}:metadata` is <<"meta", 0, f>>.
JobIds == 1..(MaxCalls * 3)
CallIds == 1..MaxCalls
MetaKey(f) == <<"meta", 0, f>>
EnqueueKeys(r) ==
  {JobKey(i) : i \in JobIds}
    \cup {MarkerKey(g, i) : g \in CallIds, i \in JobIds}
    \cup {MetaKey(f) : f \in FileIds(r)}

\* The fingerprint entry that holds the default value {} of storeFileMetadata.
MetaEmpty(sha) == [kind |-> "meta", sha |-> 0]

\* The stored commit, as kv.get parses it back.
Meta(sha) == [kind |-> "meta", sha |-> sha]
\* storedMetadata.sha, where storedMetadata is (await kv.get(key)) ?? {}:
\* undefined (0) when nothing is stored.
ShaOf(v) == IF v.kind = "meta" THEN v.sha ELSE 0

\* The job object that draws a group id of its own.
JobOwnGroup(id, g, f) ==
  [kind |-> "job", id |-> id, groupId |-> id, path |-> PathOf(f),
   status |-> "queued", updatedAt |-> now, result |-> "none"]

\* The job object of queueGroupedJobs.
Job(id, g, f) ==
  [kind |-> "job", id |-> id, groupId |-> g, path |-> PathOf(f),
   status |-> "queued", updatedAt |-> now, result |-> "none"]

\* The comparison that takes every file for changed.
ChangedAlways(stored, latestSha) == TRUE

\* !storedMetadata || storedMetadata.sha !== latestMetadata[0].sha
Changed(stored, latestSha) == ShaOf(stored) # latestSha

\* The writes of a file with the fingerprint written before the marker.
NextWriteMetaSecond(at) ==
  CASE at = "job" -> "meta"
    [] at = "meta" -> "marker"
    [] at = "marker" -> "compare"

\* The writes the loop body makes for a changed file, in order: queueJob (job
\* record, marker), storeFileMetadata, and on to the next file.
NextWrite(at) ==
  CASE at = "job" -> "marker"
    [] at = "marker" -> "meta"
    [] at = "meta" -> "compare"

RECURSIVE CommitsTo(_)
\* Commits pushed so far to the files of S.
CommitsTo(S) ==
  IF S = {} THEN 0
  ELSE LET f == CHOOSE x \in S : TRUE
       IN (latest[f] - 1) + CommitsTo(S \ {f})

InitEnqueue ==
  /\ now = 0
  /\ repo \in Repos
  /\ kv = [k \in EnqueueKeys(repo) |-> Nil]
  /\ latest = [f \in FileIds(repo) |-> 1]
  /\ failing = {} /\ calls = 0 /\ nextId = 0
  /\ epc = "idle" /\ efiles = <<>> /\ eidx = 0 /\ ejob = 0 /\ esha = 0
  /\ eresp = [kind |-> "none"]
  /\ Quiet
  /\ FetchIdle
  /\ rejected = 0
  /\ TreeIdle

\* A commit changes the latest sha of file f.
Commit(f) ==
  /\ CommitsTo(FileIds(repo)) < MaxCommits
  /\ latest' = [latest EXCEPT ![f] = @ + 1]
  /\ UNCHANGED <<repo, failing, calls, nextId, epc, efiles, eidx, ejob, esha, eresp>>
  /\ UNCHANGED <<vars, fetchVars, rejected, treeVars>>

\* POST, queueGroupedJobs up to the loop: fetchFiles, the filter on
\* getFileType, the group id.  A listing error is rethrown and POST answers
\* 500 with it.
POST ==
  /\ epc = "idle"
  /\ calls < MaxCalls
  /\ calls' = calls + 1
  /\ \E down \in SUBSET DirIds(repo) :
       LET listed == fetchFiles(repo, RootDir, down)
           Keep(f) == getFileType(FilePath(repo, f)) # "Media"
       IN /\ failing' = down
          /\ IF listed.ok
             THEN /\ efiles' = SelectSeq(listed.files, Keep)
                  /\ eidx' = 1
                  /\ epc' = "compare"
                  /\ eresp' = [kind |-> "none"]
             ELSE /\ efiles' = <<>>
                  /\ eidx' = 0
                  /\ epc' = "idle"
                  /\ eresp' = [kind |-> "error", error |-> "Failed to fetch files"]
  /\ UNCHANGED <<repo, latest, nextId, ejob, esha>>
  /\ UNCHANGED <<vars, fetchVars, rejected, treeVars>>

\* The head of the loop body: fetchGitHubCommits, getFileMetadata and the
\* test; a changed file gets a job object with a fresh id.
Compare ==
  /\ epc = "compare"
  /\ eidx <= Len(efiles)
  /\ LET f == efiles[eidx]
     IN IF Changed(kv[MetaKey(f)], latest[f])
        THEN /\ nextId' = nextId + 1
             /\ ejob' = nextId + 1
             /\ esha' = latest[f]
             /\ epc' = "job"
             /\ UNCHANGED eidx
        ELSE /\ eidx' = eidx + 1
             /\ UNCHANGED <<nextId, ejob, esha, epc>>
  /\ UNCHANGED <<repo, latest, failing, calls, efiles, eresp>>
  /\ UNCHANGED <<vars, fetchVars, rejected, treeVars>>

\* The position after the write at `at`, and the loop counter with it.
Advance(at) ==
  /\ epc' = NextWrite(at)
  /\ eidx' = IF NextWrite(at) = "compare" THEN eidx + 1 ELSE eidx
  /\ UNCHANGED <<repo, latest, failing, calls, nextId, efiles, ejob, esha, eresp>>
  /\ UNCHANGED <<now, enq, passState, pc, lres, gen, hist, artifacts, failedOnce,
                 faults, fetchVars, rejected, treeVars>>

\* queueJob: await kv.set(`job:${job.id}`, JSON.stringify(job))
QueueJobRecord ==
  /\ epc = "job"
  /\ kv' = [kv EXCEPT ![JobKey(ejob)] = Job(ejob, calls, efiles[eidx])]
  /\ Advance("job")

\* queueJob: await kv.set(`group:${job.groupId}:${job.id}`, "queued")
QueueJobMarker ==
  /\ epc = "marker"
  /\ kv' = [kv EXCEPT ![MarkerKey(calls, ejob)] = Str("queued")]
  /\ Advance("marker")

\* storeFileMetadata(repoKey, file.path, latestMetadata[0])
StoreFileMetadata ==
  /\ epc = "meta"
  /\ kv' = [kv EXCEPT ![MetaKey(efiles[eidx])] = Meta(esha)]
  /\ Advance("meta")

\* return groupId; POST answers with it.
ReturnGroupId ==
  /\ epc = "compare"
  /\ eidx > Len(efiles)
  /\ epc' = "idle"
  /\ eresp' = [kind |-> "ok", groupId |-> calls]
  /\ UNCHANGED <<repo, latest, failing, calls, nextId, efiles, eidx, ejob, esha>>
  /\ UNCHANGED <<vars, fetchVars, rejected, treeVars>>

\* The call ends where it is: an awaited request rejects (POST answers 500)
\* or the invocation is killed.
EnqueueFails ==
  /\ epc # "idle"
  /\ epc' = "idle"
  /\ eresp' = [kind |-> "error", error |-> "other"]
  /\ UNCHANGED <<repo, latest, failing, calls, nextId, efiles, eidx, ejob, esha>>
  /\ UNCHANGED <<vars, fetchVars, rejected, treeVars>>

NextEnqueue ==
  \/ POST
  \/ Compare
  \/ QueueJobRecord
  \/ QueueJobMarker
  \/ StoreFileMetadata
  \/ ReturnGroupId
  \/ EnqueueFails
  \/ \E f \in FileIds(repo) : Commit(f)

SpecEnqueue == InitEnqueue /\ [][NextEnqueue]_<<kv, enqueueVars>>

\* ------------------------------------------------------------------ claims
StoredJob(j) == kv[JobKey(j)]
Marker(j) == kv[MarkerKey(GroupOf(j), j)]
\* The jobs stored as in-progress with an updatedAt older than 6 minutes, and
\* the jobs stored as queued.
StaleInStore == {j \in Jobs : /\ StoredJob(j).kind = "job"
                              /\ StoredJob(j).status = "in-progress"
                              /\ now - StoredJob(j).updatedAt > 360000}
QueuedInStore == {j \in Jobs : /\ StoredJob(j).kind = "job"
                               /\ StoredJob(j).status = "queued"}

\* A pass starts in this step: GET listed the store as it is now.
Starts(p) == passState[p] = "idle" /\ passState'[p] = "running"
\* An execution of job j by pass p takes a step.
Runs(p, j) == pc[p][j] # "none" /\ pc'[p][j] # pc[p][j]

\* C1: a pass whose listing holds a stale in-progress job starts executions of
\* stale in-progress jobs only, a pass starts executions of queued jobs only
\* when its listing holds no stale job, a job the pass did not select is never
\* picked up later in the pass, and every write to a job record or marker that
\* is not the enqueuer's is made by an execution of that job.
C1_StaleBeforeQueued ==
  [][/\ \A p \in Passes :
          Starts(p) =>
            LET sel == {j \in Jobs : pc'[p][j] # "none"}
            IN /\ StaleInStore # {} => sel \subseteq StaleInStore
               /\ StaleInStore = {} => sel \subseteq QueuedInStore
     /\ \A p \in Passes : \A j \in Jobs :
          (passState[p] = "running" /\ pc[p][j] = "none") => pc'[p][j] = "none"
     /\ \A j \in Jobs :
          (StoredJob(j)' # StoredJob(j) \/ Marker(j)' # Marker(j))
            => \/ enq' # enq
               \/ \E p \in Passes : Runs(p, j)
    ]_vars

\* C1 witness: a pass has just selected a stale job and left a queued job alone.
C1_Witness ==
  \E p \in Passes : \E j, q \in Jobs :
    /\ pc[p][j] = "start" /\ j \in StaleInStore
    /\ q \in QueuedInStore /\ pc[p][q] = "none"

\* C2: checkGroupCompletion(G) is true if and only if every marker stored
\* under group:G:* reads "completed".
C2_BarrierIffAllCompleted ==
  \A g \in Groups :
    checkGroupCompletion(g)
      <=> \A k \in ScanKeys("group", g) : kv[k] = Str("completed")

\* Every job of group g was queued, is stored as completed with its marker
\* reading completed, and no execution of a job of g is in flight.
GroupAllCompleted(g) ==
  /\ FilesOf(g) # {}
  /\ enq[g] = 2 * Cardinality(FilesOf(g))
  /\ \A j \in FilesOf(g) :
       /\ StoredJob(j).kind = "job" /\ StoredJob(j).status = "completed"
       /\ Marker(j) = Str("completed")
  /\ \A p \in Passes : \A j \in FilesOf(g) : pc[p][j] = "none"

\* C3: for a group whose jobs have all reached completed exactly one artifact
\* is produced.
C3_ExactlyOneArtifact ==
  \A g \in Groups : GroupAllCompleted(g) => Len(artifacts[g]) = 1

\* C4: when every job of a non-empty group has reached completed and nothing
\* failed or crashed, the execution that completed the last job has finalized
\* the group: the artifact
\* was handed over and group:<groupId>:status reads "completed".
C4_CompletedGroupFinalized ==
  \A g \in Groups :
    (GroupAllCompleted(g) /\ faults = 0)
      => /\ kv[GroupStatusKey(g)] = Str("completed")
         /\ artifacts[g] # <<>>

\* The document the claim describes for group g: every job's path mapped to
\* its stored result, and the metadata entry.
ExpectedDocument(g, doc) ==
  /\ DOMAIN doc = {PathOf(j) : j \in FilesOf(g)} \cup {MetadataKey}
  /\ \A j \in FilesOf(g) : doc[PathOf(j)] = StoredJob(j).result

\* C5: the artifact assembled at finalization of a group with N jobs holds
\* exactly one entry per job, path to stored result, and one metadata entry.
C5_ArtifactEntries ==
  \A g \in Groups :
    GroupAllCompleted(g)
      => \E i \in 1..Len(artifacts[g]) : ExpectedDocument(g, artifacts[g][i])

\* C6: once a job of a group was recorded as failed, no later step hands over
\* an artifact for the group or sets group:<groupId>:status to "completed".
C6_FailedGroupNeverFinalized ==
  [][\A g \in Groups :
       (FilesOf(g) \cap failedOnce # {})
         => /\ artifacts'[g] = artifacts[g]
            /\ kv'[GroupStatusKey(g)] = kv[GroupStatusKey(g)]
    ]_vars

\* C6 witness: a job that was recorded as failed was overwritten as completed
\* by an overlapping execution, so that every job and marker of its group now
\* reads completed.
C6_Witness ==
  \E g \in Groups : GroupAllCompleted(g) /\ FilesOf(g) \cap failedOnce # {}

\* The events an execution appends to its history in this step.
NewEvents(p, j) ==
  {hist'[p][j][i] : i \in (Len(hist[p][j]) + 1)..Len(hist'[p][j])}

\* C7: an execution writes the job record as in-progress, stamped with the
\* current time, before it invokes generation; it writes the record as
\* completed with the result after generation and before it sets its marker to
\* completed; and it runs the completion check only after that marker write.
C7_ProgramOrder ==
  [][\A p \in Passes : \A j \in Jobs :
       Runs(p, j) =>
         /\ "in-progress" \in NewEvents(p, j) =>
              /\ hist[p][j] = <<>>
              /\ StoredJob(j)'.status = "in-progress"
              /\ StoredJob(j)'.updatedAt = now
         /\ "generate" \in NewEvents(p, j) => Did(p, j, "in-progress")
         /\ "completed" \in NewEvents(p, j) =>
              /\ "generate" \in NewEvents(p, j) \/ Did(p, j, "generate")
              /\ ~Did(p, j, "marker:completed")
              /\ StoredJob(j)'.status = "completed"
              /\ StoredJob(j)'.result = lres'[p][j]
         /\ "marker:completed" \in NewEvents(p, j) =>
              /\ Did(p, j, "completed")
              /\ ~Did(p, j, "check")
              /\ Marker(j)' = Str("completed")
         /\ "check" \in NewEvents(p, j) => Did(p, j, "marker:completed")
    ]_vars

\* C7 witness: an execution ran through all of its statements.
C7_Witness ==
  \E p \in Passes : \E j \in Jobs :
    hist[p][j] = <<"in-progress", "generate", "completed", "marker:completed", "check">>

\* C8: an execution whose generation step raised an error never writes
\* completed for its job, and ends with the job record and the marker written
\* as failed.
C8_GenerationErrorRecordsFailed ==
  \A p \in Passes : \A j \in Jobs :
    gen[p][j] = "err"
      => /\ ~Did(p, j, "completed") /\ ~Did(p, j, "marker:completed")
         /\ pc[p][j] = "done" => Did(p, j, "failed") /\ Did(p, j, "marker:failed")

\* C9: a pass that is not killed from outside ends only when every job it
\* selected has run to its completed or failed outcome, with no error thrown
\* out of an execution.
C9_ErrorsStayInsideThePass ==
  [][\A p \in Passes :
       (passState[p] = "running" /\ passState'[p] = "idle" /\ faults' = faults)
         => \A j \in Selected(p) : pc[p][j] = "done"
    ]_vars

\* An execution of job j has written the job record again.
Reexecuted(j) ==
  \E p \in Passes : Did(p, j, "in-progress") \/ Did(p, j, "failed")

\* C10: while passes keep being triggered and run to their end, every job
\* stored as in-progress with an updatedAt older than 6 minutes is executed
\* again by some pass, whatever the number of queued jobs and also when there
\* are more stale jobs than the limit of a pass.
C10_StaleJobReexecuted ==
  \A j \in Jobs : (j \in StaleInStore) ~> Reexecuted(j)

\* C10 witness: there are more stale jobs than the limit; a pass selected one
\* and left the other for a later pass.
C10_Witness ==
  \E p \in Passes : \E j, q \in Jobs :
    /\ j # q /\ j \in StaleInStore /\ q \in StaleInStore
    /\ pc[p][j] = "start" /\ pc[p][q] = "none"

\* The jobs stored as in-progress, of any age.
InProgressInStore == {j \in Jobs : /\ StoredJob(j).kind = "job"
                                   /\ StoredJob(j).status = "in-progress"}

\* C11: a pass that starts selects an in-progress job exactly when its age,
\* now - updatedAt, is strictly greater than 360000 ms; an in-progress job at or
\* below the threshold is not selected and is not picked up later in the pass.
C11_ReclaimableIffStale ==
  [][/\ \A p \in Passes :
          Starts(p) =>
            \A j \in InProgressInStore :
              pc'[p][j] # "none" <=> now - StoredJob(j).updatedAt > 360000
     /\ \A p \in Passes : \A j \in Jobs :
          (passState[p] = "running" /\ pc[p][j] = "none") => pc'[p][j] = "none"
    ]_vars

\* C11 witness: a pass has just started on a queued job and left alone an
\* in-progress job whose age is exactly the threshold.
C11_Witness ==
  \E p \in Passes : \E j, q \in Jobs :
    /\ j \in InProgressInStore /\ now - StoredJob(j).updatedAt = 360000
    /\ pc[p][j] = "none"
    /\ q \in QueuedInStore /\ pc[p][q] = "start"

\* The jobs of the category a pass that starts now works on.
SelectedCategory == IF StaleInStore # {} THEN StaleInStore ELSE QueuedInStore

\* C12: a pass starts executions of the first jobs of its category up to the
\* limit and no more (50 for the route; the slice of 51 jobs has 50), the jobs
\* beyond the limit are never picked up by that pass, and their job record and
\* marker are written by no step other than an execution of theirs in another
\* pass.
C12_AtMostLimitPerPass ==
  [][/\ \A p \in Passes :
          Starts(p) =>
            LET sel == {j \in Jobs : pc'[p][j] # "none"}
            IN /\ sel \subseteq SelectedCategory
               /\ Cardinality(sel) = Min(Cardinality(SelectedCategory), CapLimit)
     /\ \A p \in Passes : \A j \in Jobs :
          (passState[p] = "running" /\ pc[p][j] = "none") => pc'[p][j] = "none"
     /\ \A j \in Jobs :
          (StoredJob(j)' # StoredJob(j) \/ Marker(j)' # Marker(j))
            => \E p \in Passes : Runs(p, j)
     /\ LET many == [i \in 1..(DefaultLimit + 1) |-> i]
        IN processJobs(many, DefaultLimit) = [i \in 1..50 |-> i]
    ]_vars

\* C12 witness: two jobs are queued, a pass has started on one of them and
\* left the other, which is still stored as queued.
C12_Witness ==
  \E p \in Passes : \E j, q \in Jobs :
    /\ j # q /\ j \in QueuedInStore /\ q \in QueuedInStore
    /\ StaleInStore = {}
    /\ pc[p][j] = "start" /\ pc[p][q] = "none"

\* The timers of the catch block awaited so far.
Backoffs == SelectSeq(slept, LAMBDA t : t.after >= 1)

\* C13: a call of fetchFile or downloadFile makes at most 5 attempts and ends;
\* it returns the successful result exactly when the target fails k <= 4 times
\* first, after k + 1 attempts and k backoff timers, and it throws the error
\* naming the target and 5 attempts exactly when the target fails 5 times,
\* after 5 attempts.
C13_RetryBounded ==
  /\ [](/\ tries <= 5
        /\ outcome.kind = "returned" =>
             /\ rfTarget <= 4
             /\ tries = rfTarget + 1
             /\ Len(Backoffs) = rfTarget
             /\ outcome.value[2] = rfUrl
             /\ outcome.value[1] = IF rfFn = "fetchFile" THEN "data" ELSE "written"
        /\ outcome.kind = "threw" =>
             /\ rfTarget >= 5
             /\ tries = 5
             /\ outcome.attempts = 5
             /\ outcome.target = rfUrl)
  /\ <>(outcome.kind # "pending")

\* C13 witness: fetchFile returned the text after the target failed 4 times.
C13_Witness ==
  /\ rfFn = "fetchFile" /\ rfTarget = 4
  /\ outcome.kind = "returned" /\ tries = 5

\* C14: the timer awaited after failed attempt n (n = 1..4) is 2000, 4000,
\* 8000, 16000 ms for n = 1, 2, 3, 4, the timers follow the failed attempts in
\* order, and no timer follows the fifth failed attempt.
C14_BackoffDelays ==
  /\ Len(Backoffs) <= 4
  /\ \A i \in 1..Len(Backoffs) :
       /\ Backoffs[i].after = i
       /\ Backoffs[i].ms = <<2000, 4000, 8000, 16000>>[i]
  /\ rfPc = "try" => Len(Backoffs) = tries
  /\ outcome.kind = "threw" => Len(Backoffs) = 4 /\ tries = 5

\* C14 witness: downloadFile gave up after its fifth attempt, four timers
\* behind it.
C14_Witness ==
  /\ rfFn = "downloadFile" /\ outcome.kind = "threw" /\ Len(Backoffs) = 4

\* The job records, and the fingerprint entries, in the store.
JobsStored == {i \in JobIds : kv[JobKey(i)].kind = "job"}
JobsOfCall(g) == {i \in JobsStored : kv[JobKey(i)].groupId = g}
JobsFor(f) == {i \in JobsStored : kv[JobKey(i)].path = <<"file", f>>}
MarkersStored == {k \in DOMAIN kv : k[1] = "group" /\ kv[k] # [kind |-> "nil"]}
FingerprintsStored == {f \in FileIds(repo) : kv[MetaKey(f)].kind = "meta"}
\* The image and font files of the two repositories (b.png; L.PNG), and the
\* other files (a.js, dir/c.json; d.ttf/n).
NonProcessableFiles == IF repo = 1 THEN {2} ELSE {1}
ProcessableFiles == IF repo = 1 THEN {1, 3} ELSE {2}
NoCommit == \A f \in FileIds(repo) : latest[f] = 1
FirstCallReturned == calls = 1 /\ epc = "idle" /\ eresp.kind = "ok"

\* C15: when the first call on a repository with N processable files and an
\* empty fingerprint store has returned, the store holds exactly N job records,
\* one per processable file, each queued and of the group of the call with its
\* marker reading "queued", N markers, and N fingerprint entries, each holding
\* the latest sha of its file.
C15_OneJobAndFingerprintPerFile ==
  (FirstCallReturned /\ NoCommit) =>
    /\ Cardinality(JobsStored) = Cardinality(ProcessableFiles)
    /\ \A i \in JobsStored :
         /\ kv[JobKey(i)].status = "queued"
         /\ kv[JobKey(i)].groupId = eresp.groupId
         /\ kv[<<"group", eresp.groupId, i>>] = [kind |-> "str", s |-> "queued"]
    /\ \A f \in ProcessableFiles : Cardinality(JobsFor(f)) = 1
    /\ Cardinality(MarkersStored) = Cardinality(ProcessableFiles)
    /\ FingerprintsStored = ProcessableFiles
    /\ \A f \in ProcessableFiles : kv[MetaKey(f)].sha = latest[f]

\* C15 witness: the first call on repository 1 has returned: two jobs, two
\* markers, two fingerprint entries.
C15_Witness ==
  /\ FirstCallReturned /\ NoCommit /\ repo = 1
  /\ Cardinality(JobsStored) = 2 /\ Cardinality(MarkersStored) = 2
  /\ FingerprintsStored = {1, 3}

\* Every processable file has a stored fingerprint equal to its latest sha.
AllFingerprintsCurrent ==
  \A f \in ProcessableFiles :
    kv[MetaKey(f)].kind = "meta" /\ kv[MetaKey(f)].sha = latest[f]

\* The call decides about the file at hand in this step.
Decides ==
  /\ epc = "compare" /\ eidx <= Len(efiles)
  /\ epc' # "idle" /\ <<epc, eidx>>' # <<epc, eidx>>

\* C16: the call goes on to create a job for the file at hand exactly when the
\* stored fingerprint of the file is absent or differs from its latest sha;
\* and while every stored fingerprint equals the latest sha no step writes a
\* job record or a marker.
C16_JobIffFingerprintChanged ==
  [][/\ Decides =>
          LET f == efiles[eidx]
          IN epc' = "job" <=> \/ kv[MetaKey(f)].kind # "meta"
                              \/ kv[MetaKey(f)].sha # latest[f]
     /\ AllFingerprintsCurrent =>
          \A k \in DOMAIN kv : k[1] \in {"job", "group"} => kv'[k] = kv[k]
    ]_<<kv, enqueueVars>>

\* C16 witness: a second call has returned after the first one queued every
\* file; the fingerprints were unchanged and the second call created no job.
C16_Witness ==
  /\ calls = 2 /\ epc = "idle" /\ eresp.kind = "ok" /\ NoCommit
  /\ AllFingerprintsCurrent
  /\ JobsOfCall(2) = {}
  /\ Cardinality(JobsOfCall(1)) = Cardinality(ProcessableFiles)

\* C17: no job record is ever stored for an image, video or font file, and
\* when a call has returned every other file has a job, also a file without a
\* recognized extension; for [a.js, b.png, dir/c.json] the first call creates
\* the jobs of a.js and dir/c.json and no other.
C17_OnlyProcessableFilesQueued ==
  /\ \A f \in NonProcessableFiles : JobsFor(f) = {}
  /\ (epc = "idle" /\ eresp.kind = "ok") =>
       \A f \in FileIds(repo) \ NonProcessableFiles : JobsFor(f) # {}
  /\ (FirstCallReturned /\ NoCommit /\ repo = 1) =>
       {kv[JobKey(i)].path : i \in JobsStored} = {<<"file", 1>>, <<"file", 3>>}

\* C17 witness: the first call on repository 2 has returned; d.ttf/n has its
\* job and L.PNG has none.
C17_Witness ==
  /\ FirstCallReturned /\ repo = 2
  /\ JobsFor(2) # {} /\ JobsFor(1) = {}

\* C18: a stored fingerprint equal to the latest sha of its file implies a
\* stored job record for the file with its marker; a step that writes the
\* fingerprint of a file finds the job record and the marker of the job at hand
\* in the store; and a call that finds a job of a file but no fingerprint
\* queues the file again.
C18_JobBeforeFingerprint ==
  /\ [](\A f \in FileIds(repo) :
          (kv[MetaKey(f)].kind = "meta" /\ kv[MetaKey(f)].sha = latest[f])
            => \E i \in JobsFor(f) :
                 kv[<<"group", kv[JobKey(i)].groupId, i>>].kind = "str")
  /\ [][/\ \A f \in FileIds(repo) :
             kv'[MetaKey(f)] # kv[MetaKey(f)]
               => /\ ejob \in JobsFor(f)
                  /\ kv[<<"group", calls, ejob>>].kind = "str"
        /\ (Decides /\ JobsFor(efiles[eidx]) # {}
              /\ kv[MetaKey(efiles[eidx])].kind # "meta")
             => epc' = "job"
       ]_<<kv, enqueueVars>>

\* C18 witness: with no commit in between, the second call has queued a file
\* again whose job record and marker the first call had written before it
\* failed.
C18_Witness ==
  /\ NoCommit
  /\ \E f \in FileIds(repo) :
       /\ \E i \in JobsFor(f) \cap JobsOfCall(1) : kv[<<"group", 1, i>>].kind = "str"
       /\ JobsFor(f) \cap JobsOfCall(2) # {}

\* C19: the lister returns no file when the listing of any directory fails,
\* and a call in whose traversal a listing fails ends at once with an error and
\* has written nothing to the store.
C19_ListingFailureCommitsNothing ==
  [][/\ \A down \in SUBSET DirIds(repo) :
          down # {} => fetchFiles(repo, RootDir, down) = [ok |-> FALSE, files |-> <<>>]
     /\ (calls' = calls + 1 /\ failing' # {})
          => /\ epc' = "idle"
             /\ eresp'.kind = "error"
             /\ efiles' = <<>>
             /\ kv' = kv
    ]_<<kv, enqueueVars>>

\* C19 witness: the listing of the subdirectory failed in the first call; the
\* call answered with the listing error and the store is empty.
C19_Witness ==
  /\ calls = 1 /\ failing = {1} /\ epc = "idle"
  /\ eresp = [kind |-> "error", error |-> "Failed to fetch files"]
  /\ \A k \in DOMAIN kv : kv[k] = [kind |-> "nil"]

\* C20: a request whose Authorization header is not `Bearer <secret>` is
\* answered with 401 and the step that handles it starts no execution and
\* leaves the store, the clock and every execution as they are.
C20_UnauthorizedTouchesNothing ==
  [][\A p \in Passes : \A h \in Headers :
       (h # <<"Bearer", "s3cret">> /\ Trigger(p, CapLimit, h))
         => /\ rejected' = rejected + 1
            /\ kv' = kv
            /\ passState' = passState
            /\ pc' = pc
            /\ hist' = hist
            /\ artifacts' = artifacts
    ]_<<vars, rejected>>

\* C20 witness: a request was answered with 401 while a queued job was waiting
\* and no invocation was running.
C20_Witness ==
  /\ rejected = 1
  /\ QueuedInStore # {}
  /\ \A p \in Passes : passState[p] = "idle"


\* The enqueue call of group g is over: it returned its group id or it failed.
EnqueueOver(g) == enq[g] = 2 * Cardinality(FilesOf(g))

\* C21: once the enqueue call of a group is over, no step adds a key to the
\* set of keys matched by group:<groupId>:*.
C21_MarkerKeysFixed ==
  [][\A g \in Groups :
       EnqueueOver(g) => ScanKeys("group", g)' \subseteq ScanKeys("group", g)
    ]_vars


\* Every job of the enqueue call of group g is stored as completed.
EveryMemberCompleted(g) ==
  \A q \in FilesOf(g) :
    StoredJob(q).kind = "job" /\ StoredJob(q).status = "completed"

\* C22: an execution starts finalizeGroup, an artifact is handed over and
\* group:<groupId>:status is written only when the enqueue call of the group is
\* over and every job of the call is stored as completed, also when passes
\* run while the call is still queueing; and no artifact lacks the entry of a
\* file of the call.
C22_NoFinalizationWhileEnqueueing ==
  /\ [][/\ \A p \in Passes : \A j \in Jobs :
             "finalize" \in NewEvents(p, j)
               => EnqueueOver(GroupOf(j)) /\ EveryMemberCompleted(GroupOf(j))
        /\ \A g \in Groups :
             (\/ artifacts'[g] # artifacts[g]
              \/ kv'[GroupStatusKey(g)] # kv[GroupStatusKey(g)])
               => EnqueueOver(g) /\ EveryMemberCompleted(g)
       ]_vars
  /\ [](\A g \in Groups : \A i \in 1..Len(artifacts[g]) :
          \A q \in FilesOf(g) : PathOf(q) \in DOMAIN artifacts[g][i])

\* C22 witness: an execution has run the completion check of its group, with
\* its own marker reading completed, while the enqueue call of the group had
\* not yet queued every file.
C22_Witness ==
  \E p \in Passes : \E j \in Jobs :
    /\ Did(p, j, "check")
    /\ Marker(j) = Str("completed")
    /\ ~EnqueueOver(GroupOf(j))
    /\ \E q \in FilesOf(GroupOf(j)) : StoredJob(q).kind = "nil"


\* No execution of job j is in flight: every pass that selected it has run
\* its processJob to the end.
NotInFlight(j) == \A p \in Passes : pc[p][j] \in {"none", "done", "thrown"}

\* C23: whenever no execution of a job is in flight and the job record reads
\* queued, completed or failed, the marker of the job holds the same word.
C23_MarkerMirrorsStatus ==
  \A j \in Jobs :
    (/\ NotInFlight(j)
     /\ StoredJob(j).kind = "job"
     /\ Marker(j).kind = "str"
     /\ StoredJob(j).status \in {"queued", "completed", "failed"})
      => Marker(j).s = StoredJob(j).status


\* C24: a step never stores status queued over a job record that reads
\* in-progress, completed or failed, and the first write of an execution of a
\* job found in-progress stores in-progress.
C24_NeverBackToQueued ==
  [][/\ \A j \in Jobs :
          (/\ StoredJob(j).kind = "job"
           /\ StoredJob(j).status \in {"in-progress", "completed", "failed"})
            => StoredJob(j)'.status # "queued"
     /\ \A p \in Passes : \A j \in Jobs :
          (/\ pc[p][j] = "start" /\ pc'[p][j] = "running"
           /\ StoredJob(j).status = "in-progress")
            => StoredJob(j)'.status = "in-progress"
    ]_vars

\* C24 witness: a pass that found a stale job left the older queued job q
\* alone and has written the stale job j as in-progress again.
C24_Witness ==
  \E p \in Passes : \E j, q \in Jobs :
    /\ Did(p, j, "in-progress")
    /\ StoredJob(j).status = "in-progress" /\ StoredJob(j).updatedAt = now
    /\ StoredJob(q).kind = "job" /\ StoredJob(q).status = "queued"
    /\ StoredJob(q).updatedAt < now
    /\ pc[p][q] = "none"


MarkersOfCall(g) == {k \in MarkersStored : k[2] = g}

\* C26: every job record a call writes is new and carries the group id of the
\* call, every marker a call writes lies under that group id and belongs to a
\* job of the call, a call that returns answers with that group id, the group
\* id of a new call is carried by no job or marker in the store, and a call
\* that created no job returns its group id with no marker under it.
C26_OneGroupIdPerCall ==
  /\ [][/\ \A i \in JobIds :
             kv'[JobKey(i)] # kv[JobKey(i)]
               => /\ kv[JobKey(i)].kind = "nil"
                  /\ kv'[JobKey(i)].groupId = calls
        /\ \A k \in DOMAIN kv :
             (k[1] = "group" /\ kv'[k] # kv[k])
               => /\ k[2] = calls
                  /\ kv[JobKey(k[3])].kind = "job"
                  /\ kv[JobKey(k[3])].groupId = calls
        /\ (epc # "idle" /\ epc' = "idle" /\ eresp'.kind = "ok")
             => eresp'.groupId = calls
        /\ calls' # calls
             => JobsOfCall(calls') = {} /\ MarkersOfCall(calls') = {}
       ]_<<kv, enqueueVars>>
  /\ [](\A g \in CallIds :
          /\ \A k \in MarkersOfCall(g) : k[3] \in JobsOfCall(g)
          /\ (epc = "idle" /\ eresp.kind = "ok" /\ JobsOfCall(calls) = {})
               => eresp.groupId = calls /\ MarkersOfCall(calls) = {})

\* C26 witness: the second call found no changed file; it returned group id 2
\* with no job and no marker under it, while the jobs and markers of the first
\* call are all under group id 1.
C26_Witness ==
  /\ calls = 2 /\ epc = "idle"
  /\ eresp = [kind |-> "ok", groupId |-> 2]
  /\ JobsOfCall(2) = {} /\ MarkersOfCall(2) = {}
  /\ JobsOfCall(1) # {}
  /\ Cardinality(MarkersOfCall(1)) = Cardinality(JobsOfCall(1))


RECURSIVE Under(_, _)
\* Entry n of the drawn repository lies in directory d, at any depth.
Under(n, d) ==
  \/ tree.parent[n] = d
  \/ tree.parent[n] # 0 /\ Under(tree.parent[n], d)

\* The number of times x occurs in sequence s.
Occurrences(s, x) == Cardinality({i \in 1..Len(s) : s[i] = x})

\* C27: a call of fetchFiles in which no listing fails returns, and what a
\* call returns holds every file that lies under the given directory, at any
\* depth, exactly once, and holds nothing else: no directory and no file from
\* outside the directory.
C27_OneDescriptorPerFile ==
  /\ \A d \in Dirs : fetchFiles(3, d, {}).ok
  /\ lout.state = "returned" =>
       /\ \A n \in DOMAIN tree.type :
            (tree.type[n] = "file" /\ Under(n, lsub))
              => Occurrences(lout.files, n) = 1
       /\ \A i \in 1..Len(lout.files) :
            /\ tree.type[lout.files[i]] = "file"
            /\ Under(lout.files[i], lsub)

\* C27 witness: the call was given a subdirectory; it returned a file that
\* lies two levels below it and left out a file from outside it.
C27_Witness ==
  /\ lout.state = "returned" /\ lsub # 0
  /\ \E i \in 1..Len(lout.files) : tree.parent[lout.files[i]] \notin {0, lsub}
  /\ \E m \in DOMAIN tree.type :
       tree.type[m] = "file" /\ ~Under(m, lsub) /\ Occurrences(lout.files, m) = 0


RECURSIVE LocalPathOf(_)
\* The local path of entry n of the drawn repository.
LocalPathOf(n) ==
  IF tree.parent[n] = 0 THEN <<0, n>>
  ELSE Append(LocalPathOf(tree.parent[n]), n)

\* C28: every local path a download wrote to lies in a directory that
\* exists, the local directory of a call exists while the call loops over its
\* contents or has descended into a subdirectory, and a checkout that
\* returned has created every directory and written every file.
C28_DirectoryBeforeContents ==
  /\ \A t \in targets : Parent(t) \in localDirs
  /\ \A i \in 1..Len(frames) :
       (frames[i].at = "loop" \/ i < Len(frames)) => frames[i].local \in localDirs
  /\ cout = "done" =>
       \A n \in DOMAIN tree.type :
         IF tree.type[n] = "dir" THEN LocalPathOf(n) \in localDirs
         ELSE LocalPathOf(n) \in targets

\* C28 witness: a file two directories below the root was written while the
\* calls for both directories were still in progress.
C28_Witness ==
  /\ cout = "pending" /\ Len(frames) = 3
  /\ \E t \in targets : Len(t) = 4 /\ Parent(t) = frames[3].local


\* The keys whose value this step changes.
Written == {k \in Keys : kv'[k] # kv[k]}

\* C29: a step changes the value of at most one key; a step of an execution
\* of job J changes nothing but job:J, the marker of J or the status key of
\* J's group, and the status key only in a step that runs finalizeGroup; a
\* write that is not the enqueuer's is made by an execution; and a job record
\* that is written is the whole record of that job.
C29_WritesOwnKeysOnly ==
  [][/\ Cardinality(Written) <= 1
     /\ \A p \in Passes : \A j \in Jobs :
          Runs(p, j) =>
            /\ Written \subseteq {JobKey(j), MarkerKey(GroupOf(j), j),
                                   GroupStatusKey(GroupOf(j))}
            /\ GroupStatusKey(GroupOf(j)) \in Written
                 => "finalize" \in NewEvents(p, j)
     /\ (Written # {} /\ enq' = enq) => \E p \in Passes : \E j \in Jobs : Runs(p, j)
     /\ \A j \in Jobs :
          JobKey(j) \in Written
            => /\ StoredJob(j)'.id = j
               /\ StoredJob(j)'.groupId = GroupOf(j)
               /\ StoredJob(j)'.path = PathOf(j)
               /\ DOMAIN StoredJob(j)' = DOMAIN JobRec(j, "queued", 0, "none")
    ]_vars

\* C29 witness: job j was executed to its end while job q of the same group,
\* queued meanwhile, still has the record and the marker the enqueuer wrote.
C29_Witness ==
  \E p \in Passes : \E j, q \in Jobs :
    /\ j # q /\ GroupOf(j) = GroupOf(q)
    /\ pc[p][j] = "done" /\ Marker(j) = Str("completed")
    /\ StoredJob(j).kind = "job" /\ StoredJob(j).status = "completed"
    /\ StoredJob(q).kind = "job"
    /\ StoredJob(q) = JobRec(q, "queued", StoredJob(q).updatedAt, "none")
    /\ Marker(q) = Str("queued")
    /\ \A r \in Passes : pc[r][q] = "none"


\* C30: when a pass starts with more eligible jobs than its limit, no job it
\* leaves out has a smaller updatedAt than a job it takes; and of 51 jobs in
\* the order of getJobs the slice of the route holds the first 50.
C30_OldestFirst ==
  [][/\ \A p \in Passes :
          Starts(p) =>
            LET sel == {j \in Jobs : pc'[p][j] # "none"}
            IN \A j \in sel : \A q \in SelectedCategory \ sel :
                 StoredJob(j).updatedAt <= StoredJob(q).updatedAt
     /\ LET sorted == [i \in 1..51 |-> [id |-> i, updatedAt |-> 10 * i]]
            slice == processJobs(sorted, DefaultLimit)
        IN /\ Len(slice) = 50
           /\ \A i \in 1..Len(slice) : slice[i].updatedAt < sorted[51].updatedAt
    ]_vars

\* C30 witness: of two eligible jobs of the same category a pass with limit 1
\* has taken the one with the smaller updatedAt and left the other.
C30_Witness ==
  \E p \in Passes : \E j, q \in Jobs :
    /\ pc[p][j] = "start" /\ pc[p][q] = "none"
    /\ {j, q} \subseteq SelectedCategory
    /\ StoredJob(j).updatedAt < StoredJob(q).updatedAt

\* The jobs stored with a terminal status.
TerminalInStore == {j \in Jobs : /\ StoredJob(j).kind = "job"
                                 /\ StoredJob(j).status \in {"completed", "failed"}}

\* C31: a pass that starts selects no job its listing shows as completed or
\* failed, a job the pass did not select is not picked up later in the pass, and
\* a step of a pass changes the record or the marker of a job only when it is a
\* step of an execution that pass started for the job; so the record and the
\* marker of a job listed as completed or failed are left as they are by the
\* pass.
C31_TerminalJobsLeftAlone ==
  [][\A p \in Passes :
       /\ Starts(p) => \A j \in TerminalInStore : pc'[p][j] = "none"
       /\ \A j \in Jobs :
            (passState[p] = "running" /\ pc[p][j] = "none")
              => /\ pc'[p][j] = "none"
                 /\ (\A q \in Passes \ {p} : pc'[q] = pc[q] /\ passState'[q] = passState[q])
                      /\ enq' = enq
                      => /\ StoredJob(j)' = StoredJob(j)
                         /\ Marker(j)' = Marker(j)
    ]_vars

\* C31 witness: a job was recorded as failed before the last clock tick, a pass
\* that started after the tick has run another job through to the end, and the
\* failed job's record and marker are as the failed execution left them.
C31_Witness ==
  \E p \in Passes : \E j, q \in Jobs :
    /\ j # q
    /\ StoredJob(q).kind = "job" /\ StoredJob(q).status = "failed"
    /\ StoredJob(q).updatedAt < now
    /\ Marker(q) = Str("failed")
    /\ pc[p][q] = "none"
    /\ pc[p][j] = "done" /\ Did(p, j, "completed")

\* The completion check or the finalization of an execution raised an error:
\* the execution wrote its marker as completed and is in its handler.
RaisedAfterCompletion(p, j) ==
  /\ Did(p, j, "completed") /\ Did(p, j, "marker:completed")
  /\ pc[p][j] \in {"catch", "catch2"}

\* C32: an execution whose completion check or finalization raised an error
\* after it recorded its job as completed goes on to write the job record as
\* failed, with the result it stored, and then the marker as failed; it takes
\* no other step before these two writes.
C32_ErrorAfterCompletionRecordsFailed ==
  [][\A p \in Passes : \A j \in Jobs :
       (RaisedAfterCompletion(p, j) /\ Runs(p, j))
         => IF pc[p][j] = "catch"
            THEN /\ pc'[p][j] = "catch2"
                 /\ StoredJob(j)'.status = "failed"
                 /\ StoredJob(j)'.result = processFile(PathOf(j))
            ELSE /\ pc'[p][j] = "done"
                 /\ Marker(j)' = Str("failed")
    ]_vars

\* What JSON.stringify yields for the object a settled fileInfoToAstData call
\* returns, {file, type, ast, summary, sourceCode}: a text with the file's path
\* in it, never "{}", the text of an object without own enumerable fields such
\* as a pending promise.
AstDataJson == "{file,type,ast,summary,sourceCode}"

\* C33: a job record stored as completed carries a result produced by a
\* content-generation call, a job record stored as queued carries no result,
\* and the content-generation call of an execution has settled by the time the
\* execution writes its record as completed: it does not fail afterwards.
C33_CompletedCarriesGeneratedResult ==
  /\ [](\A j \in Jobs :
          StoredJob(j).kind = "job" =>
            /\ StoredJob(j).status = "completed" => StoredJob(j).result = AstDataJson
            /\ StoredJob(j).status = "queued" => StoredJob(j).result = "none")
  /\ [][\A p \in Passes : \A j \in Jobs :
          (gen[p][j] # "err" /\ gen'[p][j] = "err") => ~Did(p, j, "completed")
       ]_vars

====
